---- MODULE Spec2Model ----
(***************************************************************************)
(* Site Mapper (src/app.py): URL filtering/normalisation, the treemap      *)
(* hierarchy aggregation and the "Map Site" run handler.                   *)
(*                                                                         *)
(* A Python str is modelled as a sequence of one-character strings, so     *)
(* that parsing (urlsplit), re-assembly (urlunsplit), strip, lower, the    *)
(* regular expression of _normalize_path and the '|' join of node ids are  *)
(* computed character by character.                                        *)
(***************************************************************************)
EXTENDS Integers, Sequences, FiniteSets, TLC

VARIABLES
    pc,                 \* position of the specification's driver
    raw,                \* urls argument of normalize_* (a list of str)
    base_host,          \* base_host argument of normalize_*
    include_subdomains, \* checkbox "Include subdomains"
    preserve_qf,        \* checkbox "Preserve query/fragment in URLs"
    pages_only,         \* checkbox "Filter to site pages (no assets)"
    out,                \* outcome of the filter: [raised, value]
    out2,               \* outcome of the filter applied to out.value
    urls,               \* urls argument of render_treemap_go_from_urls
    levels,             \* levels argument of render_treemap_go_from_urls
    fig,                \* what render_treemap_go_from_urls built
    API_KEY,            \* FIRECRAWL_API_KEY of the process
    state,              \* st.session_state: [urls, host, stats]
    msg,                \* what the last "Map Site" run showed
    last                \* inputs of the last "Map Site" run

vars == <<pc, raw, base_host, include_subdomains, preserve_qf, pages_only,
          out, out2, urls, levels, fig, API_KEY, state, msg, last>>

----------------------------------------------------------------------------
(* Bounds *)

\* longest raw URL list handed to the filter
MaxUrls == 2
\* longest raw URL list handed (through the filter) to the treemap
MaxTreeUrls == 3
\* largest levels argument tried on the treemap
MaxLevels == 3

----------------------------------------------------------------------------
(* Python str primitives *)

\* the characters that occur in the modelled strings, in code point order
Alphabet ==
    <<" ","#","+","-",".","/","0","1","2","3","4","5","6","7","8","9",":","?","A","B","C","D","E","F","G","H","I","J","K","L","M","N","O","P","Q","R","S","T","U","V","W","X","Y","Z","[","]","a","b","c","d","e","f","g","h","i","j","k","l","m","n","o","p","q","r","s","t","u","v","w","x","y","z","|">>

Range(s) == {s[i] : i \in 1..Len(s)}

\* the rank of a character in code point order (ord() up to a monotone map)
OrdOf == [c \in Range(Alphabet) |-> CHOOSE i \in 1..Len(Alphabet) : Alphabet[i] = c]

Ord(c) == OrdOf[c]

Upper == <<"A","B","C","D","E","F","G","H","I","J","K","L","M","N","O","P","Q","R","S","T","U","V","W","X","Y","Z">>
Lower == <<"a","b","c","d","e","f","g","h","i","j","k","l","m","n","o","p","q","r","s","t","u","v","w","x","y","z">>
Digits == <<"0","1","2","3","4","5","6","7","8","9">>

UpperChars == Range(Upper)
LowerChars == Range(Lower)
DigitChars == Range(Digits)

LowerOf ==
    [c \in Range(Alphabet) |->
        IF c \in UpperChars THEN Lower[CHOOSE i \in 1..Len(Upper) : Upper[i] = c] ELSE c]

\* str.lower()
lower(s) == [i \in 1..Len(s) |-> LowerOf[s[i]]]

\* str.strip(): leading and trailing whitespace removed
RECURSIVE lstrip(_)
lstrip(s) == IF s # << >> /\ Head(s) = " " THEN lstrip(Tail(s)) ELSE s

RECURSIVE rstrip(_)
rstrip(s) == IF s # << >> /\ s[Len(s)] = " " THEN rstrip(SubSeq(s, 1, Len(s) - 1)) ELSE s

strip(s) == rstrip(lstrip(s))

\* str.startswith / str.endswith
startswith(s, p) == Len(p) <= Len(s) /\ SubSeq(s, 1, Len(p)) = p

endswith(s, p) == Len(p) <= Len(s) /\ SubSeq(s, Len(s) - Len(p) + 1, Len(s)) = p

\* 1-based index of the first character of s that is in the set cs, 0 if none
FindAny(s, cs) ==
    IF \E i \in 1..Len(s) : s[i] \in cs
    THEN CHOOSE i \in 1..Len(s) : s[i] \in cs /\ \A j \in 1..(i - 1) : s[j] \notin cs
    ELSE 0

\* t in s, for strings
contains(s, t) == \E i \in 1..(Len(s) - Len(t) + 1) : SubSeq(s, i, i + Len(t) - 1) = t

\* s < t in Python's str order (code points, a proper prefix first)
RECURSIVE StrLess(_, _)
StrLess(s, t) ==
    IF t = << >> THEN FALSE
    ELSE IF s = << >> THEN TRUE
    ELSE IF Head(s) = Head(t) THEN StrLess(Tail(s), Tail(t))
    ELSE Ord(Head(s)) < Ord(Head(t))

\* str.split("/")
RECURSIVE split(_)
split(s) ==
    LET i == FindAny(s, {"/"})
    IN  IF i = 0 THEN <<s>>
        ELSE <<SubSeq(s, 1, i - 1)>> \o split(SubSeq(s, i + 1, Len(s)))

\* sep.join(parts)
RECURSIVE join(_, _)
join(sep, parts) ==
    IF parts = << >> THEN << >>
    ELSE IF Len(parts) = 1 THEN parts[1]
    ELSE parts[1] \o sep \o join(sep, Tail(parts))

\* str(n) for n >= 0
RECURSIVE str(_)
str(n) == IF n < 10 THEN <<Digits[n + 1]>> ELSE str(n \div 10) \o <<Digits[(n % 10) + 1]>>

----------------------------------------------------------------------------
(* urllib.parse.urlsplit / urlunsplit, as the source calls them.  Each     *)
(* stage of the parse is an operator that hands its results to the next.   *)

SchemeChars == UpperChars \cup LowerChars \cup DigitChars \cup {"+", "-", "."}

\* url[:i] is a scheme: i is the place of the first ":" (0 if none)
HasScheme(url, i) ==
    /\ i > 1
    /\ url[1] \in UpperChars \cup LowerChars
    /\ \A j \in 1..(i - 1) : url[j] \in SchemeChars

\* the query is cut at the first "?" (q, 0 if none); a netloc with an
\* unmatched bracket makes urlsplit raise ValueError("Invalid IPv6 URL")
SplitQuery(scheme, netloc, url, fragment, q) ==
    [raised   |-> ("[" \in Range(netloc)) # ("]" \in Range(netloc)),
     scheme   |-> scheme,
     netloc   |-> netloc,
     path     |-> IF q = 0 THEN url ELSE SubSeq(url, 1, q - 1),
     query    |-> IF q = 0 THEN << >> ELSE SubSeq(url, q + 1, Len(url)),
     fragment |-> fragment]

\* the fragment is cut at the first "#" (h, 0 if none)
SplitFragment(scheme, netloc, url, h) ==
    SplitQuery(scheme, netloc,
               IF h = 0 THEN url ELSE SubSeq(url, 1, h - 1),
               IF h = 0 THEN << >> ELSE SubSeq(url, h + 1, Len(url)),
               FindAny(IF h = 0 THEN url ELSE SubSeq(url, 1, h - 1), {"?"}))

\* after "//" the netloc runs to the first of "/", "?", "#"
SplitNetloc(scheme, url, hasNetloc, d) ==
    SplitFragment(scheme,
                  IF ~hasNetloc THEN << >>
                  ELSE IF d = 0 THEN SubSeq(url, 3, Len(url)) ELSE SubSeq(url, 3, d - 1),
                  IF ~hasNetloc THEN url
                  ELSE IF d = 0 THEN << >> ELSE SubSeq(url, d, Len(url)),
                  IF ~hasNetloc THEN FindAny(url, {"#"})
                  ELSE IF d = 0 THEN 0
                  ELSE FindAny(SubSeq(url, d, Len(url)), {"#"}))

\* d: the place in url of the first of "/", "?", "#" after the leading "//"
NetlocEnd(url) ==
    IF FindAny(SubSeq(url, 3, Len(url)), {"/", "?", "#"}) = 0 THEN 0
    ELSE 2 + FindAny(SubSeq(url, 3, Len(url)), {"/", "?", "#"})

SplitScheme(url, i) ==
    IF HasScheme(url, i)
    THEN SplitNetloc(lower(SubSeq(url, 1, i - 1)), SubSeq(url, i + 1, Len(url)),
                     startswith(SubSeq(url, i + 1, Len(url)), <<"/","/">>),
                     NetlocEnd(SubSeq(url, i + 1, Len(url))))
    ELSE SplitNetloc(<< >>, url, startswith(url, <<"/","/">>), NetlocEnd(url))

\* urlsplit(u): [raised, scheme, netloc, path, query, fragment]
urlsplit(u) == SplitScheme(lstrip(u), FindAny(lstrip(u), {":"}))

\* the schemes of urllib.parse.uses_netloc that occur here
UsesNetloc == {<<"h","t","t","p">>, <<"h","t","t","p","s">>, <<"f","t","p">>}

\* url = url + "?" + query, url = url + "#" + fragment
WithQueryFragment(url, query, fragment) ==
    url \o (IF query # << >> THEN <<"?">> \o query ELSE << >>)
        \o (IF fragment # << >> THEN <<"#">> \o fragment ELSE << >>)

urlunsplit(scheme, netloc, path, query, fragment) ==
    WithQueryFragment(
        (IF scheme # << >> THEN scheme \o <<":">> ELSE << >>)
        \o (IF netloc # << >>
               \/ (scheme # << >> /\ scheme \in UsesNetloc /\ ~startswith(path, <<"/","/">>))
            THEN <<"/","/">> \o netloc
                 \o (IF path # << >> /\ Head(path) # "/" THEN <<"/">> ELSE << >>)
            ELSE << >>)
        \o path,
        query, fragment)

----------------------------------------------------------------------------
(* _normalize_path *)

\* re.sub(r"/+", "/", s)
RECURSIVE CollapseSlashes(_)
CollapseSlashes(s) ==
    IF Len(s) < 2 THEN s
    ELSE IF s[1] = "/" /\ s[2] = "/" THEN CollapseSlashes(Tail(s))
    ELSE <<Head(s)>> \o CollapseSlashes(Tail(s))

\* if path != "/" and path.endswith("/"): path = path[:-1]
DropTrailingSlash(p) ==
    IF p # <<"/">> /\ endswith(p, <<"/">>) THEN SubSeq(p, 1, Len(p) - 1) ELSE p

_normalize_path(path) ==
    DropTrailingSlash(CollapseSlashes(IF path = << >> THEN <<"/">> ELSE path))

----------------------------------------------------------------------------
(* normalize_pages_only / normalize_internal_all *)

ASSET_EXTS == {
    <<".","j","p","g">>, <<".","j","p","e","g">>, <<".","p","n","g">>, <<".","g","i","f">>, <<".","w","e","b","p">>, <<".","a","v","i","f">>, <<".","s","v","g">>, <<".","i","c","o">>,
    <<".","c","s","s">>, <<".","j","s">>, <<".","m","a","p">>,
    <<".","j","s","o","n">>, <<".","x","m","l">>, <<".","r","s","s">>, <<".","a","t","o","m">>,
    <<".","p","d","f">>, <<".","d","o","c">>, <<".","d","o","c","x">>, <<".","x","l","s">>, <<".","x","l","s","x">>, <<".","p","p","t">>, <<".","p","p","t","x">>,
    <<".","z","i","p">>, <<".","g","z">>, <<".","t","a","r">>, <<".","t","g","z">>, <<".","r","a","r">>, <<".","7","z">>,
    <<".","m","p","3">>, <<".","w","a","v">>, <<".","m","4","a">>, <<".","o","g","g">>, <<".","w","e","b","m">>, <<".","m","p","4">>, <<".","m","o","v">>, <<".","a","v","i">>,
    <<".","w","o","f","f">>, <<".","w","o","f","f","2">>, <<".","t","t","f">>, <<".","o","t","f">>, <<".","e","o","t">>,
    <<".","d","m","g">>, <<".","e","x","e">>, <<".","b","i","n">>, <<".","a","p","k">> }

\* the scheme test of both filters
SchemeOk(scheme) == scheme \in {<<"h","t","t","p">>, <<"h","t","t","p","s">>}

HostInScopeNoDot(host, base, subdomains) ==
    host = base \/ (subdomains /\ endswith(host, base))

\* the host filter of both filters
HostInScope(host, base, subdomains) ==
    host = base \/ (subdomains /\ endswith(host, <<".">> \o base))

IsPageNoDotRule(lowerPath) ==
    ~ \E ext \in ASSET_EXTS : endswith(lowerPath, ext)

\* the assets/pages-only rule: TRUE when the URL is kept
IsPage(lowerPath) ==
    /\ ~ \E ext \in ASSET_EXTS : endswith(lowerPath, ext)
    /\ ~ ( /\ "." \in Range(lowerPath)
           /\ ~ \E e \in {<<".","h","t","m","l">>, <<".","h","t","m">>, <<".","p","h","p">>} : endswith(lowerPath, e) )

\* an iteration ends in "skip" (continue), "raise" (urlsplit raised) or
\* "keep" (the URL is appended to out)
Skipped == [kind |-> "skip", url |-> << >>]

\* the tests on the parsed entry, then out.append(urlunsplit(...))
FilterParsed(pu, host, path, base, subdomains, qf, pagesRule) ==
    IF pu.raised THEN [kind |-> "raise", url |-> << >>]
    ELSE IF ~SchemeOk(pu.scheme) THEN Skipped
    ELSE IF ~HostInScope(host, base, subdomains) THEN Skipped
    ELSE IF pagesRule /\ ~IsPage(lower(path)) THEN Skipped
    ELSE [kind |-> "keep",
          url  |-> urlunsplit(pu.scheme, host, path,
                              IF qf THEN pu.query ELSE << >>,
                              IF qf THEN pu.fragment ELSE << >>)]

\* host = pu.netloc.lower(); path = _normalize_path(pu.path)
FilterSplit(pu, base, subdomains, qf, pagesRule) ==
    FilterParsed(pu, lower(pu.netloc), _normalize_path(pu.path),
                 base, subdomains, qf, pagesRule)

\* one iteration of the loop body
FilterEntry(u0, base, subdomains, qf, pagesRule) ==
    IF strip(u0) = << >> THEN Skipped
    ELSE FilterSplit(urlsplit(strip(u0)), base, subdomains, qf, pagesRule)

\* the effect of one iteration on the loop: out grows, or the call raises
LoopStep(acc, e) ==
    IF acc.raised \/ e.kind = "raise" THEN [raised |-> TRUE, value |-> << >>]
    ELSE IF e.kind = "keep" THEN [raised |-> FALSE, value |-> Append(acc.value, e.url)]
    ELSE acc

\* the for loop, from out = []: the list out, or raised
RECURSIVE FilterLoop(_, _, _, _, _, _)
FilterLoop(acc, us, base, subdomains, qf, pagesRule) ==
    IF us = << >> THEN acc
    ELSE FilterLoop(LoopStep(acc, FilterEntry(Head(us), base, subdomains, qf, pagesRule)),
                    Tail(us), base, subdomains, qf, pagesRule)

MinString(S) == CHOOSE x \in S : \A y \in S : ~StrLess(y, x)

RECURSIVE SortStrings(_)
SortStrings(S) ==
    IF S = {} THEN << >> ELSE <<MinString(S)>> \o SortStrings(S \ {MinString(S)})

UnsortedList(o) == o

\* sorted(set(out))
SortedSet(o) == SortStrings(Range(o))

Returned(r) ==
    IF r.raised THEN r ELSE [raised |-> FALSE, value |-> SortedSet(r.value)]

NoResult == [raised |-> FALSE, value |-> << >>]

normalize_pages_only(us, base, subdomains, qf) ==
    Returned(FilterLoop(NoResult, us, base, subdomains, qf, TRUE))

normalize_internal_all(us, base, subdomains, qf) ==
    Returned(FilterLoop(NoResult, us, base, subdomains, qf, FALSE))

----------------------------------------------------------------------------
(* The filter specification: both filters applied to a raw list, then to   *)
(* their own output.                                                       *)

\* raw entries as a crawler may return them
FilterRaw == {
    <<"h","t","t","p","s",":","/","/","x",".","c","o","m","/","a">>,
    <<"h","t","t","p","s",":","/","/","x",".","c","o","m","/","a","/">>,
    <<"H","T","T","P",":","/","/","X",".","c","o","m","/","/","b">>,
    <<"h","t","t","p","s",":","/","/","x",".","c","o","m">>,
    <<"h","t","t","p","s",":","/","/","b",".","x",".","c","o","m","/","p",".","h","t","m","l","?","q","#","f">>,
    <<"h","t","t","p","s",":","/","/","x",".","c","o","m","/","i",".","J","P","G">>,
    <<"h","t","t","p","s",":","/","/","x",".","c","o","m","/","v",".","1","/","d">>,
    <<"f","t","p",":","/","/","x",".","c","o","m","/","a">>,
    <<"h","t","t","p","s",":","/","/","a","x",".","c","o","m","/","a">>,
    <<" ","h","t","t","p","s",":","/","/","x",".","c","o","m","/","c"," ","#","f">>,
    <<" ">>,
    <<"h","t","t","p",":","/","/","[","x",".","c","o","m","/","a">>,
    <<"x",".","c","o","m","/","a">> }

BaseHosts == {<<"x",".","c","o","m">>, <<"b",".","x",".","c","o","m">>}

ListsUpTo(S, n) == UNION {[1..k -> S] : k \in 0..n}

NoFig == << >>

Idle ==
    /\ urls = << >> /\ levels = 0 /\ fig = NoFig
    /\ API_KEY = << >> /\ state = << >> /\ msg = "" /\ last = "none"

FilterInit ==
    /\ pc = "start"
    /\ raw \in ListsUpTo(FilterRaw, MaxUrls)
    /\ base_host \in BaseHosts
    /\ include_subdomains \in BOOLEAN
    /\ preserve_qf \in BOOLEAN
    /\ pages_only = FALSE
    /\ out = NoResult
    /\ out2 = NoResult
    /\ Idle

FilterFrame == UNCHANGED <<raw, base_host, include_subdomains, preserve_qf,
                           urls, levels, fig, API_KEY, state, msg, last>>

ApplyPagesOnly ==
    /\ pc = "start"
    /\ \E r \in {normalize_pages_only(raw, base_host, include_subdomains, preserve_qf)} :
          /\ out' = r
          /\ pc' = IF r.raised THEN "raised" ELSE "once"
    /\ pages_only' = TRUE
    /\ UNCHANGED out2
    /\ FilterFrame

ApplyInternalAll ==
    /\ pc = "start"
    /\ \E r \in {normalize_internal_all(raw, base_host, include_subdomains, preserve_qf)} :
          /\ out' = r
          /\ pc' = IF r.raised THEN "raised" ELSE "once"
    /\ pages_only' = FALSE
    /\ UNCHANGED out2
    /\ FilterFrame

Reapply ==
    /\ pc = "once"
    /\ out2' = IF pages_only
               THEN normalize_pages_only(out.value, base_host, include_subdomains, preserve_qf)
               ELSE normalize_internal_all(out.value, base_host, include_subdomains, preserve_qf)
    /\ pc' = "twice"
    /\ UNCHANGED <<out, pages_only>>
    /\ FilterFrame

FilterNext == ApplyPagesOnly \/ ApplyInternalAll \/ Reapply

SpecFilter == FilterInit /\ [][FilterNext]_vars

----------------------------------------------------------------------------
(* compute_depth, render_treemap_go_from_urls *)

\* [s for s in path.split("/") if s]
NonEmpty(parts) == SelectSeq(parts, LAMBDA x : x # << >>)

\* path or "/"
PathOrRoot(path) == IF path = << >> THEN <<"/">> ELSE path

compute_depth(u) == Len(NonEmpty(split(PathOrRoot(urlsplit(u).path))))

\* host = pu.netloc or "/"; chain = [host] + parts
ChainOf(pu) ==
    <<IF pu.netloc = << >> THEN <<"/">> ELSE pu.netloc>> \o NonEmpty(split(PathOrRoot(pu.path)))

Chain(u) == ChainOf(urlsplit(u))

Min(a, b) == IF a < b THEN a ELSE b
Max(a, b) == IF a > b THEN a ELSE b

\* counts[node] += 1 for every node of the set
CountAll(counts, nodes) ==
    [n \in DOMAIN counts \cup nodes |->
        (IF n \in DOMAIN counts THEN counts[n] ELSE 0) + (IF n \in nodes THEN 1 ELSE 0)]

\* if node not in d: d[node] = u, for every node of the set
FirstSeen(d, nodes, u) ==
    [n \in DOMAIN d \cup nodes |-> IF n \in DOMAIN d THEN d[n] ELSE u]

MarkLeafAlways(leaf_first_url, leaf_multi, leaf_node) == leaf_multi \cup {leaf_node}

\* leaf_multi after the leaf bookkeeping of one URL
MarkLeaf(leaf_first_url, leaf_multi, leaf_node) ==
    IF leaf_node \in DOMAIN leaf_first_url THEN leaf_multi \cup {leaf_node} ELSE leaf_multi

\* the bookkeeping of one URL, its chain cut to k segments
TreeVisit(acc, u, chain, k) ==
    [counts         |-> CountAll(acc.counts, {SubSeq(chain, 1, i) : i \in 1..k}),
     example_url    |-> FirstSeen(acc.example_url, {SubSeq(chain, 1, i) : i \in 1..k}, u),
     leaf_first_url |-> FirstSeen(acc.leaf_first_url, {SubSeq(chain, 1, k)}, u),
     leaf_multi     |-> MarkLeaf(acc.leaf_first_url, acc.leaf_multi, SubSeq(chain, 1, k))]

\* k = min(levels, len(chain))
TreeCut(acc, u, chain, lv) == TreeVisit(acc, u, chain, Min(lv, Len(chain)))

\* one iteration of "for u in urls", levels already clamped
TreeStep(acc, u, lv) == TreeCut(acc, u, Chain(u), lv)

RECURSIVE TreeLoop(_, _, _)
TreeLoop(acc, us, lv) ==
    IF us = << >> THEN acc ELSE TreeLoop(TreeStep(acc, Head(us), lv), Tail(us), lv)

\* tuple comparison of two nodes, segment by segment
RECURSIVE TupleLess(_, _)
TupleLess(a, b) ==
    IF b = << >> THEN FALSE
    ELSE IF a = << >> THEN TRUE
    ELSE IF Head(a) = Head(b) THEN TupleLess(Tail(a), Tail(b))
    ELSE StrLess(Head(a), Head(b))

NodeLessDeepestFirst(a, b) == Len(a) > Len(b) \/ (Len(a) = Len(b) /\ TupleLess(a, b))

\* key=lambda t: (len(t), t)
NodeLess(a, b) == Len(a) < Len(b) \/ (Len(a) = Len(b) /\ TupleLess(a, b))

MinNode(S) == CHOOSE x \in S : \A y \in S : ~NodeLess(y, x)

RECURSIVE SortNodes(_)
SortNodes(S) ==
    IF S = {} THEN << >> ELSE <<MinNode(S)>> \o SortNodes(S \ {MinNode(S)})

\* "|" + "|".join(node)
NodeId(node) == <<"|">> \o join(<<"|">>, node)

\* parent = "" if len(node) == 1 else id_map[node[:-1]]
ParentId(node) ==
    IF Len(node) = 1 THEN << >> ELSE NodeId(SubSeq(node, 1, Len(node) - 1))

\* label = node[-1] if node[-1] else "/"
Label(node) == IF node[Len(node)] # << >> THEN node[Len(node)] ELSE <<"/">>

node_prefix_url(acc, node) ==
    (IF node \in DOMAIN acc.example_url
     THEN urlsplit(acc.example_url[node]).scheme ELSE <<"h","t","t","p","s">>)
    \o <<":","/","/">>
    \o (IF node # << >> THEN node[1] ELSE << >>)
    \o (IF Len(node) > 1 THEN <<"/">> \o join(<<"/">>, Tail(node)) ELSE <<"/">>)

Hover(acc, node) ==
    IF node \in DOMAIN acc.leaf_first_url /\ node \notin acc.leaf_multi
    THEN acc.leaf_first_url[node]
    ELSE str(acc.counts[node]) \o <<" ","U","R","L","s"," ","u","n","d","e","r"," ">> \o node_prefix_url(acc, node)

EmptyAcc ==
    [counts |-> << >>, example_url |-> << >>, leaf_first_url |-> << >>, leaf_multi |-> {}]

\* the lists handed to go.Treemap, with nodes_sorted and leaf_multi kept
EmitNodes(acc, nodes_sorted) ==
    [nodes      |-> nodes_sorted,
     leaf_multi |-> acc.leaf_multi,
     ids        |-> [i \in 1..Len(nodes_sorted) |-> NodeId(nodes_sorted[i])],
     labels     |-> [i \in 1..Len(nodes_sorted) |-> Label(nodes_sorted[i])],
     parents    |-> [i \in 1..Len(nodes_sorted) |-> ParentId(nodes_sorted[i])],
     values     |-> [i \in 1..Len(nodes_sorted) |-> acc.counts[nodes_sorted[i]]],
     customdata |-> [i \in 1..Len(nodes_sorted) |-> Hover(acc, nodes_sorted[i])]]

\* nodes_sorted = sorted(counts.keys(), ...)
Emit(acc) == EmitNodes(acc, SortNodes(DOMAIN acc.counts))

render_treemap_go_from_urls(us, lvls) == Emit(TreeLoop(EmptyAcc, us, Max(2, lvls)))

\* max_segments of the run handler: 1 + the deepest compute_depth, at least 1
RECURSIVE max_segments(_)
max_segments(us) ==
    IF us = << >> THEN 1 ELSE Max(max_segments(Tail(us)), 1 + compute_depth(Head(us)))

----------------------------------------------------------------------------
(* The treemap specification: render_treemap_go_from_urls on a filtered    *)
(* URL list (the only lists the program hands it) and a levels value.      *)

TreeRaw == {
    <<"h","t","t","p","s",":","/","/","x",".","c","o","m","/">>,
    <<"h","t","t","p","s",":","/","/","x",".","c","o","m","/","a">>,
    <<"h","t","t","p",":","/","/","x",".","c","o","m","/","a">>,
    <<"h","t","t","p","s",":","/","/","x",".","c","o","m","/","a","?","q">>,
    <<"h","t","t","p","s",":","/","/","x",".","c","o","m","/","a","/","b">>,
    <<"h","t","t","p","s",":","/","/","x",".","c","o","m","/","a","|","b">>,
    <<"h","t","t","p","s",":","/","/","x",".","c","o","m","/","a","/","b","/","c">>,
    <<"h","t","t","p","s",":","/","/","x",".","c","o","m","/","a","/","d",".","h","t","m","l">>,
    <<"h","t","t","p","s",":","/","/","x",".","c","o","m","/","e">>,
    <<"h","t","t","p","s",":","/","/","b",".","x",".","c","o","m","/","a">> }

\* the crawler's answers tried: the filter sorts and deduplicates, so each
\* set of entries is given once, in one order
TreeLists == {SortStrings(S) : S \in {T \in SUBSET TreeRaw : Cardinality(T) <= MaxTreeUrls}}

TreeInit ==
    /\ pc = "start"
    /\ raw \in TreeLists
    /\ base_host = <<"x",".","c","o","m">>
    /\ include_subdomains = TRUE
    /\ preserve_qf \in BOOLEAN
    /\ pages_only \in BOOLEAN
    /\ out = IF pages_only
             THEN normalize_pages_only(raw, base_host, include_subdomains, preserve_qf)
             ELSE normalize_internal_all(raw, base_host, include_subdomains, preserve_qf)
    /\ out2 = NoResult
    /\ urls = out.value
    /\ levels \in (0..MaxLevels) \cup {max_segments(urls)}
    /\ fig = NoFig
    /\ API_KEY = << >> /\ state = << >> /\ msg = "" /\ last = "none"

Render ==
    /\ pc = "start"
    /\ fig' = render_treemap_go_from_urls(urls, levels)
    /\ pc' = "rendered"
    /\ UNCHANGED <<raw, base_host, include_subdomains, preserve_qf, pages_only,
                   out, out2, urls, levels, API_KEY, state, msg, last>>

TreeNext == Render

SpecTree == TreeInit /\ [][TreeNext]_vars

----------------------------------------------------------------------------
(* normalize_input_url, looks_like_login and the "Map Site" run handler *)

\* re.match(r"^[a-zA-Z][a-zA-Z0-9+.-]*://", s), i the place of the first ":"
MatchesScheme(s, i) ==
    /\ i > 1
    /\ s[1] \in UpperChars \cup LowerChars
    /\ \A j \in 2..(i - 1) : s[j] \in SchemeChars
    /\ startswith(SubSeq(s, i, Len(s)), <<":","/","/">>)

HasSchemePrefix(s) == MatchesScheme(s, FindAny(s, {":"}))

RECURSIVE lstripSlash(_)
lstripSlash(s) == IF s # << >> /\ Head(s) = "/" THEN lstripSlash(Tail(s)) ELSE s

\* after urlsplit: ValueError without a host, else the https URL
NormalizeParsed(pu) ==
    IF pu.raised
    THEN [raised |-> TRUE, value |-> << >>, msg |-> "Invalid IPv6 URL"]
    ELSE IF pu.netloc = << >>
    THEN [raised |-> TRUE, value |-> << >>,
          msg |-> "Invalid domain/URL. Try like example.com or https://example.com/path"]
    ELSE [raised |-> FALSE, msg |-> "",
          value |-> urlunsplit(lower(pu.scheme), lower(pu.netloc),
                               _normalize_path(pu.path), << >>, << >>)]

\* s is the stripped input
NormalizeStripped(s) ==
    IF s = << >>
    THEN [raised |-> TRUE, value |-> << >>,
          msg |-> "Please enter a domain or URL, e.g. example.com or https://example.com/path"]
    ELSE NormalizeParsed(urlsplit(IF HasSchemePrefix(s) THEN s
                                  ELSE <<"h","t","t","p","s",":","/","/">> \o lstripSlash(s)))

\* [raised, msg, value]: ValueError with its message, or the https URL
normalize_input_url(raw0) == NormalizeStripped(strip(raw0))

LoginTokens == {
    <<"l","o","g","i","n">>, <<"s","i","g","n","-","i","n">>, <<"s","i","g","n","i","n">>, <<"w","p","-","l","o","g","i","n">>, <<"u","s","e","r","/","l","o","g","i","n">>, <<"u","s","e","r","s","/","l","o","g","i","n">>,
    <<"a","c","c","o","u","n","t","/","l","o","g","i","n">>, <<"m","y","-","a","c","c","o","u","n","t">>, <<"a","u","t","h">>, <<"s","e","s","s","i","o","n","/","n","e","w">>, <<"w","p","-","a","d","m","i","n">>, <<"/","a","d","m","i","n","/","l","o","g","i","n">> }

\* any(t in s for t in tokens)
HasLoginToken(s) == \E t \in LoginTokens : contains(s, t)

\* s = (p.path + "?" + (p.query or "")).lower()
LoginText(p) == lower(p.path \o <<"?">> \o p.query)

looks_like_login(u) == HasLoginToken(LoginText(urlsplit(u)))

RECURSIVE SumDepths(_)
SumDepths(us) == IF us = << >> THEN 0 ELSE compute_depth(Head(us)) + SumDepths(Tail(us))

RECURSIVE MaxDepth(_)
MaxDepth(us) == IF us = << >> THEN 0 ELSE Max(compute_depth(Head(us)), MaxDepth(Tail(us)))

\* state.stats of a completed run; avg_depth is the exact mean sum/n, 0.0 as 0/1
Stats(us, elapsed, po) ==
    [count     |-> Len(us),
     avg_depth |-> IF Len(us) > 0 THEN [num |-> SumDepths(us), den |-> Len(us)]
                   ELSE [num |-> 0, den |-> 1],
     max_depth |-> MaxDepth(us),
     elapsed   |-> elapsed,
     login     |-> IF \E i \in 1..Len(us) : looks_like_login(us[i]) THEN "Yes" ELSE "No",
     pages_only |-> po]

AssignUrlsOnly(st, us, host, stats) == [urls |-> us, host |-> host, stats |-> st.stats]

\* state.urls = urls; state.host = host; state.stats = {...}
AssignState(st, us, host, stats) == [urls |-> us, host |-> host, stats |-> stats]

NotCalled == [raised |-> FALSE, value |-> << >>]

\* what a run that stops early leaves: the session state as it was, the
\* message shown, and the arguments and result of the filter if it was called
Failed(st, message, host, links, filtered) ==
    [state |-> st, msg |-> message, host |-> host, links |-> links,
     filtered |-> filtered, urls |-> << >>, levels |-> 0, fig |-> NoFig]

\* from the stats to the treemap: the run completes
RunCompleted(st, host, links, filtered, elapsed, po, max_seg) ==
    [state    |-> AssignState(st, filtered.value, host, Stats(filtered.value, elapsed, po)),
     msg      |-> "Mapping complete",
     host     |-> host,
     links    |-> links,
     filtered |-> filtered,
     urls     |-> filtered.value,
     levels   |-> max_seg,
     fig      |-> render_treemap_go_from_urls(filtered.value, max_seg)]

\* after the filter call: its ValueError ends the run in "except ValueError"
RunFiltered(st, host, links, filtered, elapsed, po) ==
    IF filtered.raised
    THEN Failed(st, "Invalid IPv6 URL", host, links, filtered)
    ELSE RunCompleted(st, host, links, filtered, elapsed, po, max_segments(filtered.value))

\* after call_firecrawl_map returned: links = data.get("links") or ..., then the filter
RunCrawled(st, host, links, sub, po, qf, elapsed) ==
    RunFiltered(st, host, links,
                IF po THEN normalize_pages_only(links, host, sub, qf)
                ELSE normalize_internal_all(links, host, sub, qf),
                elapsed, po)

\* inside try: n is what normalize_input_url did, crawl what call_firecrawl_map does
RunTry(st, n, sub, po, qf, crawl, elapsed) ==
    IF n.raised THEN Failed(st, n.msg, << >>, << >>, NotCalled)
    ELSE IF crawl.raises THEN Failed(st, "exception", << >>, << >>, NotCalled)
    ELSE RunCrawled(st, lower(urlsplit(n.value).netloc), crawl.links, sub, po, qf, elapsed)

\* the body of "if run:"
run_handler(st, key, base_url, sub, po, qf, crawl, elapsed) ==
    IF strip(base_url) = << >>
    THEN Failed(st, "Enter a base URL", << >>, << >>, NotCalled)
    ELSE IF key = << >>
    THEN Failed(st, "API key missing in .env", << >>, << >>, NotCalled)
    ELSE RunTry(st, normalize_input_url(base_url), sub, po, qf, crawl, elapsed)

----------------------------------------------------------------------------
(* The session specification: any sequence of "Map Site" runs.             *)

\* what the user may have typed in "Base URL"
BaseUrlInputs == {<<" ">>, <<"x",".","c","o","m">>, <<"H","T","T","P","S",":","/","/","B",".","x",".","c","o","m","/","/","h","o","m","e","/">>, <<"/">>}

\* what call_firecrawl_map may do: raise, or return these links
CrawlOutcomes ==
    {[raises |-> TRUE, links |-> << >>]}
    \cup {[raises |-> FALSE, links |-> l] : l \in {
        << >>,
        <<<<"h","t","t","p","s",":","/","/","x",".","c","o","m","/">>>>,
        <<<<"h","t","t","p","s",":","/","/","x",".","c","o","m","/","a","/","l","o","g","i","n">>, <<"h","t","t","p","s",":","/","/","x",".","c","o","m","/","a">>>>,
        <<<<"h","t","t","p",":","/","/","[","x",".","c","o","m","/","a">>, <<"h","t","t","p","s",":","/","/","x",".","c","o","m","/","a">>>>,
        <<<<"f","t","p",":","/","/","x",".","c","o","m","/","a">>, <<"h","t","t","p","s",":","/","/","b",".","x",".","c","o","m","/","b",".","p","n","g">>>>,
        <<<<"h","t","t","p","s",":","/","/","b",".","x",".","c","o","m","/","a",".","h","t","m","l","?","q">>, <<"h","t","t","p","s",":","/","/","b",".","x",".","c","o","m","/","a",".","h","t","m","l">>>> }}

\* time.time() - t0, in whole seconds
ElapsedValues == {1, 2}

AppInit ==
    /\ pc = "session"
    /\ API_KEY \in {<< >>, <<"k">>}
    /\ state = [urls |-> << >>, host |-> << >>, stats |-> << >>]
    /\ msg = ""
    /\ last = "none"
    /\ raw = << >> /\ base_host = << >>
    /\ include_subdomains = FALSE /\ preserve_qf = FALSE /\ pages_only = TRUE
    /\ out = NotCalled /\ out2 = NoResult
    /\ urls = << >> /\ levels = 0 /\ fig = NoFig

\* the user sets the widgets and presses "Map Site"; the widgets' values are
\* inputs of the run, and the filter's arguments are recorded when it is called
Run ==
    /\ pc = "session"
    /\ \E base_url \in BaseUrlInputs, sub \in BOOLEAN, po \in BOOLEAN, qf \in BOOLEAN,
          crawl \in CrawlOutcomes, elapsed \in ElapsedValues :
          \E r \in {run_handler(state, API_KEY, base_url, sub, po, qf, crawl, elapsed)} :
              /\ state' = r.state
              /\ msg' = r.msg
              /\ last' = IF r.msg = "Mapping complete" THEN "completed" ELSE "failed"
              /\ base_host' = r.host
              /\ raw' = r.links
              /\ out' = r.filtered
              /\ urls' = r.urls
              /\ levels' = r.levels
              /\ fig' = r.fig
    /\ UNCHANGED <<pc, API_KEY, out2, include_subdomains, pages_only, preserve_qf>>

Next == Run

Spec == AppInit /\ [][Next]_vars

----------------------------------------------------------------------------
(* Claims about the filters (SpecFilter) *)

Returns == pc \in {"once", "twice"}

\* the page rule as the specification words it, on the path of an emitted URL
ClaimedPage(u) ==
    LET p == lower(_normalize_path(urlsplit(u).path))
    IN  /\ \A ext \in ASSET_EXTS : ~endswith(p, ext)
        /\ \/ "." \notin Range(p)
           \/ endswith(p, <<".","h","t","m","l">>) \/ endswith(p, <<".","h","t","m">>) \/ endswith(p, <<".","p","h","p">>)

\* C3: applying a filter to its own output, with the same base host and
\* flags, returns exactly the sequence of the first application.
FilterIdempotent == pc = "twice" => out2 = out

\* C5: normalize_pages_only returns precisely the URLs of
\* normalize_internal_all (same raw list, base host and flags) whose
\* lowercased normalized path passes the page rule, each of them unmodified.
PagesOnlyIsInternalAllMinusAssets ==
    (pc = "once" /\ pages_only) =>
        LET all == normalize_internal_all(raw, base_host, include_subdomains, preserve_qf)
        IN  /\ ~all.raised
            /\ out.value = SelectSeq(all.value, ClaimedPage)

\* C5 witness: pages-only dropped an asset that all-internal keeps, and kept
\* a .html URL with its extension.
PagesOnlyDropsAndKeeps ==
    /\ pc = "once" /\ pages_only
    /\ Len(normalize_internal_all(raw, base_host, include_subdomains, preserve_qf).value)
          > Len(out.value)
    /\ \E i \in 1..Len(out.value) : endswith(urlsplit(out.value[i]).path, <<".","h","t","m","l">>)

\* a raw entry on a subdomain of base_host that nothing else excludes
AcceptableSubdomainEntry(r) ==
    LET pu == urlsplit(strip(r))
    IN  /\ strip(r) # << >>
        /\ ~pu.raised
        /\ pu.scheme \in {<<"h","t","t","p">>, <<"h","t","t","p","s">>}
        /\ endswith(lower(pu.netloc), <<".">> \o base_host)
        /\ pages_only => ClaimedPage(strip(r))

\* C6: every emitted URL has a lowercased host equal to base_host or, only
\* when include_subdomains is set, ending with "." + base_host; without the
\* flag no subdomain URL is emitted, with it every otherwise acceptable
\* subdomain entry is.
HostScoping ==
    Returns =>
        /\ \A i \in 1..Len(out.value) :
              LET h == lower(urlsplit(out.value[i]).netloc)
              IN  \/ h = base_host
                  \/ include_subdomains /\ endswith(h, <<".">> \o base_host)
        /\ ~include_subdomains =>
              \A i \in 1..Len(out.value) :
                  ~endswith(lower(urlsplit(out.value[i]).netloc), <<".">> \o base_host)
        /\ include_subdomains =>
              \A k \in 1..Len(raw) :
                  AcceptableSubdomainEntry(raw[k]) =>
                      \E i \in 1..Len(out.value) :
                          /\ urlsplit(out.value[i]).netloc = lower(urlsplit(strip(raw[k])).netloc)
                          /\ urlsplit(out.value[i]).path
                                = _normalize_path(urlsplit(strip(raw[k])).path)

\* C6 witness: with include_subdomains a subdomain URL was emitted next to a
\* URL of the base host itself.
SubdomainEmitted ==
    /\ pc = "once" /\ include_subdomains
    /\ \E i, j \in 1..Len(out.value) :
          /\ lower(urlsplit(out.value[i]).netloc) = base_host
          /\ endswith(lower(urlsplit(out.value[j]).netloc), <<".">> \o base_host)

\* C7: the result is duplicate-free and strictly ascending in the
\* lexicographic order of the canonical URL string.
StrictlyAscending ==
    Returns =>
        \A i, j \in 1..Len(out.value) : i < j => StrLess(out.value[i], out.value[j])

\* C7 witness: two raw entries, both kept, normalise to one canonical string,
\* or are given in descending order and come out ascending.
DuplicateMergedOrReordered ==
    /\ pc = "once" /\ Len(raw) = 2
    /\ \A k \in 1..2 :
          FilterEntry(raw[k], base_host, include_subdomains, preserve_qf, pages_only).kind = "keep"
    /\ \/ Len(out.value) = 1
       \/ Len(out.value) = 2 /\ out.value[1] = FilterEntry(raw[2], base_host,
                                     include_subdomains, preserve_qf, pages_only).url

----------------------------------------------------------------------------
(* Claims about the treemap (SpecTree) *)

Rendered == pc = "rendered"

RECURSIVE SumValues(_, _)
SumValues(f, S) ==
    IF S = {} THEN 0
    ELSE LET j == CHOOSE x \in S : TRUE IN f[j] + SumValues(f, S \ {j})

\* the positions of the direct children of the node at position i: the
\* nodes whose segment sequence is that node's plus exactly one segment
ChildrenOf(i) ==
    {j \in 1..Len(fig.nodes) :
        /\ Len(fig.nodes[j]) = Len(fig.nodes[i]) + 1
        /\ SubSeq(fig.nodes[j], 1, Len(fig.nodes[i])) = fig.nodes[i]}

\* C1: every emitted node that has at least one child has a value equal to
\* the sum of the values of its direct children.
RollUpLaw ==
    Rendered =>
        \A i \in 1..Len(fig.nodes) :
            ChildrenOf(i) # {} => fig.values[i] = SumValues(fig.values, ChildrenOf(i))

\* C4: two nodes with different segment sequences never get the same id.
DistinctNodeIds ==
    Rendered =>
        \A i, j \in 1..Len(fig.nodes) :
            fig.nodes[i] # fig.nodes[j] => fig.ids[i] # fig.ids[j]

\* the leaf node of a URL: its chain cut to min(max(2, levels), len(chain))
LeafOf(u) == SubSeq(Chain(u), 1, Min(Max(2, levels), Len(Chain(u))))

IsPrefix(n, c) == Len(n) <= Len(c) /\ SubSeq(c, 1, Len(n)) = n

\* the URLs of the list that have node n as their leaf node
LeafUrls(n) == {u \in Range(urls) : LeafOf(u) = n}

\* the positions of the URLs of the list counted at node n
Through(n) == {k \in 1..Len(urls) : IsPrefix(n, LeafOf(urls[k]))}

\* "{count} URLs under {prefix URL}": the prefix URL has the scheme of the
\* first URL counted at the node, then the node's host and path segments
CountText(n) ==
    LET first == urls[CHOOSE k \in Through(n) : \A m \in Through(n) : k <= m]
    IN  str(Cardinality(Through(n))) \o <<" ","U","R","L","s"," ","u","n","d","e","r"," ">>
        \o urlsplit(first).scheme \o <<":","/","/">> \o n[1]
        \o (IF Len(n) > 1 THEN <<"/">> \o join(<<"/">>, Tail(n)) ELSE <<"/">>)

ParentsPrecedeChildren ==
    Rendered =>
        \A i \in 1..Len(fig.nodes) :
            LET n == fig.nodes[i]
            IN  /\ Len(n) > 1 =>
                      \E j \in 1..(i - 1) :
                          /\ fig.nodes[j] = SubSeq(n, 1, Len(n) - 1)
                          /\ fig.parents[i] = fig.ids[j]
                /\ (fig.parents[i] = << >>) <=> (Len(n) = 1)

\* C9 witness: a three-segment node was emitted after two hosts.
DeepNodeEmitted ==
    /\ Rendered
    /\ \E i, j, k \in 1..Len(fig.nodes) :
          /\ i < j /\ j < k
          /\ Len(fig.nodes[i]) = 1 /\ Len(fig.nodes[j]) = 1 /\ Len(fig.nodes[k]) = 3

----------------------------------------------------------------------------
(* Claims about the run handler (Spec) *)

Completed == msg = "Mapping complete"

\* C2: malformed entries never fail a mapping run: whenever the crawler
\* returned links and the filter was called on them, the filter returned
\* normally and the run set state.urls from the remaining entries.
MalformedEntriesNeverFailRun ==
    raw # << >> => (~out.raised /\ Completed /\ state.urls = out.value)

\* C10, as first stated: state.stats['count'] always equals len(state.urls).
CountAlwaysEqualsLen ==
    "count" \in DOMAIN state.stats /\ state.stats.count = Len(state.urls)

\* C10, amended: a run that does not complete leaves state.urls, state.host
\* and state.stats as they were; a run that completes sets the three
\* together from its own filtered list and host; and whenever state.stats
\* has a 'count' (it is {} until the first completed run) the count equals
\* len(state.urls).
FailedRunLeavesStateUntouched ==
    /\ [][msg' # "Mapping complete" => state' = state]_vars
    /\ [][msg' = "Mapping complete" =>
            /\ state'.urls = out'.value
            /\ state'.host = base_host'
            /\ "count" \in DOMAIN state'.stats
            /\ state'.stats.count = Len(out'.value)]_vars
    /\ []("count" \in DOMAIN state.stats => state.stats.count = Len(state.urls))
    /\ []("count" \notin DOMAIN state.stats => state.urls = << >> /\ state.host = << >>)

\* C10 witness: after a completed run that found URLs, a run failed in the
\* filter and the session still holds the earlier result.
FailedAfterCompleted ==
    /\ last = "failed"
    /\ msg = "Invalid IPv6 URL"
    /\ out.raised
    /\ state.urls # << >>
    /\ state.stats.count = Len(state.urls)

====
